---- MODULE Spec2Model ----
(***************************************************************************)
(* Model of the console's data-synchronisation layer:                      *)
(*   - WSManager            (ui/src/api/websocket.ts)                      *)
(*   - fetchJSON / api      (ui/src/api/client.ts)                         *)
(*   - useStore             (ui/src/store/useStore.ts)                     *)
(*   - Layout               (ui/src/components/Layout.tsx)                 *)
(*   - BacktestLab          (ui/src/panels/BacktestLab.tsx)                *)
(* JavaScript runs every callback to completion on one thread, so each     *)
(* callback (a method call, a socket event, a timer, the continuation of   *)
(* an awaited request) is one action.  A write to the store re-renders the *)
(* mounted components and re-runs their effects before the next callback.  *)
(***************************************************************************)
EXTENDS Integers, Sequences, FiniteSets, TLC

\* ------------------------------------------------------------------ bounds
\* socket objects that can exist at once (dead ones are garbage-collected)
MaxSockets == 3
\* timeout handles the browser can hold at once
MaxTimers == 2
\* handlers registered for one topic at once
MaxHandlers == 2
\* versions of the remote data (dashboard, equity curve, trades)
MaxVer == 2
\* readings of Date.now()
MaxClock == 2
\* jobs the remote service accepts
MaxJobs == 1
\* status requests issued
MaxPolls == 2
\* bars of a job (its progress is none or all of them)
TotalBars == 2
\* dashboard pulls Layout's interval may leave unanswered before it waits
MaxInFlight == 2
\* times the BacktestLab panel is mounted
MaxMounts == 2

VARIABLES
    wsm,        \* the WSManager singleton, with the sockets and timeouts it created
    store,      \* the useStore singleton
    layout,     \* the Layout component
    lab,        \* the BacktestLab component
    net,        \* the awaited requests in flight, in the order they were issued
    refresh,    \* the requests in flight whose answer goes to .then(setter)
    remote,     \* the remote service
    lastOp,     \* history: the last WSManager callback that ran
    userDown,   \* history: disconnect() was called and connect() was not called since
    regs,       \* history: per topic, the on() calls still in force, in the order made
    disp,       \* history: the last message event and the handler calls it made
    hist,       \* history: counts of requests, writes and cascades
    board       \* the ToggleBoard component, its requests in flight and the service's toggles

vars == <<wsm, store, layout, lab, net, refresh, remote, lastOp, userDown, regs, disp, hist, board>>

\* null, in a slot that holds a number
Null == 0
\* null, in a slot that holds a string
NoMsg == "null"

Min(S) == CHOOSE x \in S : \A y \in S : x <= y

Versions == 1..MaxVer
Times == 1..MaxClock
\* the ids of the jobs: MaxJobs submissions, and one more where a job is
\* submitted after them
JobIds == 1..(MaxJobs + 1)

\* ---------------------------------------------------------------- useStore
Panels == {"fleet-health", "backtest-lab"}

\* activeBacktest: null
\* the params of a job: the instrument, the one field of the form that is told apart
Params == {"ES", "NQ"}

NullJob ==
    [job_id |-> Null, status |-> "null", progress |-> 0, error |-> NoMsg,
     params |-> "null"]

\* The data of a slot is the version of the remote record it was read from;
\* 0 is what the slot holds at creation (null, or the empty list).
StoreInit ==
    store = [activePanel |-> "fleet-health",
             dashboard |-> Null,
             positions |-> Null,
             trades |-> Null,
             toggles |-> Null,
             equityCurve |-> Null,
             scoring |-> Null,
             risk |-> Null,
             pois |-> Null,
             activeBacktest |-> NullJob,
             loading |-> FALSE,
             error |-> NoMsg,
             lastUpdate |-> 0]

setActivePanel(st, panel) == [st EXCEPT !.activePanel = panel]
\* a setDashboard that keeps the newer of the two versions
setDashboardNewest(st, data) ==
    [st EXCEPT !.dashboard = IF data > @ THEN data ELSE @]
setDashboard(st, data) == [st EXCEPT !.dashboard = data]
setPositions(st, data) == [st EXCEPT !.positions = data]
setTrades(st, data) == [st EXCEPT !.trades = data]
setToggles(st, data) == [st EXCEPT !.toggles = data]
setEquityCurve(st, data) == [st EXCEPT !.equityCurve = data]
setScoring(st, data) == [st EXCEPT !.scoring = data]
setRisk(st, data) == [st EXCEPT !.risk = data]
setPois(st, data) == [st EXCEPT !.pois = data]
\* a setActiveBacktest that merges the descriptor into the one in the slot
setActiveBacktestMerge(st, data) ==
    [st EXCEPT !.activeBacktest =
        IF @ = NullJob \/ data = NullJob THEN data
        ELSE [data EXCEPT !.params = st.activeBacktest.params]]
setActiveBacktest(st, data) == [st EXCEPT !.activeBacktest = data]
setLoading(st, loading) == [st EXCEPT !.loading = loading]
setError(st, error) == [st EXCEPT !.error = error]
setLastUpdate(st, ts) == [st EXCEPT !.lastUpdate = ts]

\* Date.now(): not before the reading already stored
Now(st) == {t \in Times : t >= st.lastUpdate}

\* ------------------------------------------------------------- api/client
\* What fetch() resolves or rejects with.
\*   kind   "network"   fetch rejects (no response)
\*          "response"  a response: ok, statusText, and a body that is
\*                      json = "none"    not JSON
\*                             "null"    the JSON value null
\*                             "object"  a JSON object with the field detail
\* detail is Absent when the object has no such field.
Absent == "undefined"
StatusText == "Bad Gateway"
FailedToFetch == "Failed to fetch"
NullTypeError == "Cannot read properties of null (reading 'detail')"
JsonSyntaxError == "Unexpected token"

OkResponse == [kind |-> "response", ok |-> TRUE, json |-> "object", detail |-> Absent]
BadResponses ==
    [kind : {"response"}, ok : {FALSE}, json : {"object"},
     detail : {Absent, "", "bad gateway"}]
    \cup [kind : {"response"}, ok : {FALSE}, json : {"none", "null"}, detail : {Absent}]
NetworkFailure == [kind |-> "network", ok |-> FALSE, json |-> "none", detail |-> Absent]
Outcomes == {OkResponse, NetworkFailure} \cup BadResponses
    \cup {[kind |-> "response", ok |-> TRUE, json |-> "none", detail |-> Absent]}

\* a ||  b on strings
OrElse(a, b) == IF a = Absent \/ a = "" THEN b ELSE a

\* fetchJSON (postJSON has the same body): whether the promise rejects, and
\* the message of the Error it rejects with
fetchJSON(res) ==
    IF res.kind = "network" THEN [threw |-> TRUE, message |-> FailedToFetch]
    ELSE IF ~res.ok THEN
        \* err = await res.json().catch(() => ({ detail: res.statusText }))
        IF res.json = "none"
        THEN [threw |-> TRUE, message |-> OrElse(StatusText, StatusText)]
        ELSE IF res.json = "null"
        THEN [threw |-> TRUE, message |-> NullTypeError]
        ELSE [threw |-> TRUE, message |-> OrElse(res.detail, StatusText)]
    ELSE IF res.json = "none" THEN [threw |-> TRUE, message |-> JsonSyntaxError]
    ELSE [threw |-> FALSE, message |-> NoMsg]

\* ------------------------------------------------------------ WebSocket
SockIds == 1..MaxSockets
TimerIds == 1..MaxTimers

\* The life of a socket object.  "ABORTING" is a socket on which close() was
\* called before it was connected: its readyState reads CLOSING, and the
\* browser ends it with an error event followed by a close event.
SockStates == {"CONNECTING", "OPEN", "CLOSING", "ABORTING", "CLOSED"}

\* A socket object whose readyState is CLOSED has delivered its close event
\* and delivers nothing more; unless the manager still points at it, its
\* slot stands for the next object created by new WebSocket().
FreeSocks(m) == {s \in SockIds : m.socks[s] = "CLOSED" /\ s # m.ws}

FreeTimers(m) == TimerIds \ m.timers

\* WebSocket.close(): starts the closing handshake of a connecting or open
\* socket; no effect on a closing or closed one.  s may be null (this.ws?.).
close(m, s) ==
    IF s = Null THEN m
    ELSE IF m.socks[s] = "CONNECTING" THEN [m EXCEPT !.socks[s] = "ABORTING"]
    ELSE IF m.socks[s] = "OPEN" THEN [m EXCEPT !.socks[s] = "CLOSING"]
    ELSE m

\* clearTimeout(t)
clearTimeout(m, t) == [m EXCEPT !.timers = @ \ {t}]

\* ------------------------------------------------------------ WSManager
\* the topics of the envelopes, and two handlers a caller may register
Topics == {"dashboard", "other"}
AbstractHandlers == {"h1", "h2"}

\* a connect() without the test of line 15
connectAlways(m) ==
    IF FreeSocks(m) = {} THEN m
    ELSE LET s == Min(FreeSocks(m))
         IN  [m EXCEPT !.ws = s, !.socks[s] = "CONNECTING"]

\* connect(): lines 14-17 (the handlers it installs are onopen, onmessage,
\* onclose, onerror below; they close over the manager, not over the socket).
connect(m) ==
    IF m.ws # Null /\ m.socks[m.ws] = "OPEN"
    THEN m
    ELSE LET s == Min(FreeSocks(m))
         IN  [m EXCEPT !.ws = s, !.socks[s] = "CONNECTING"]

\* connect() can run within the bounds of the model
CanConnect(m) ==
    (m.ws # Null /\ m.socks[m.ws] = "OPEN") \/ FreeSocks(m) # {}

\* ws.onopen
onopen(m) ==
    IF m.reconnectTimer # Null
    THEN [clearTimeout(m, m.reconnectTimer) EXCEPT !.reconnectTimer = Null]
    ELSE m

\* a scheduleReconnect without the guard on a pending timer
scheduleReconnectUnguarded(m) ==
    IF FreeTimers(m) = {} THEN m
    ELSE LET t == Min(FreeTimers(m))
         IN  [m EXCEPT !.timers = @ \cup {t}, !.reconnectTimer = t]

\* scheduleReconnect(): the timeout's callback is reconnectCallback
scheduleReconnect(m) ==
    IF m.reconnectTimer # Null THEN m
    ELSE LET t == Min(FreeTimers(m))
         IN  [m EXCEPT !.timers = @ \cup {t}, !.reconnectTimer = t]

\* an onclose that schedules nothing
oncloseNoRetry(m) == m

\* ws.onclose
onclose(m) == scheduleReconnect(m)

\* ws.onerror
onerror(m) == close(m, m.ws)

\* a disconnect() that leaves the timer alone
disconnectKeepTimer(m) ==
    LET m2 == close(m, m.ws)
    IN  [m2 EXCEPT !.ws = Null]

\* disconnect()
disconnect(m) ==
    LET m1 == IF m.reconnectTimer # Null
              THEN [clearTimeout(m, m.reconnectTimer) EXCEPT !.reconnectTimer = Null]
              ELSE m
        m2 == close(m1, m1.ws)
    IN  [m2 EXCEPT !.ws = Null]

\* the callback given to setTimeout in scheduleReconnect
reconnectCallback(m) == connect([m EXCEPT !.reconnectTimer = Null])

\* this.handlers.get(type) || []
get(m, type) == IF type \in DOMAIN m.handlers THEN m.handlers[type] ELSE <<>>

\* an on() that puts the new handler first
onPrepend(m, type, handler) ==
    [m EXCEPT !.handlers[type] = <<handler>> \o get(m, type)]

\* on(type, handler)
on(m, type, handler) ==
    [m EXCEPT !.handlers[type] = Append(get(m, type), handler)]

\* an off() that empties the topic
offTopic(m, type, handler) ==
    [m EXCEPT !.handlers[type] = <<>>]

\* off(type, handler)
off(m, type, handler) ==
    [m EXCEPT !.handlers[type] = SelectSeq(get(m, type), LAMBDA h : h # handler)]

\* for (const h of handlers) h(msg.data), inside the try block: the calls
\* made, in order, and whether a handler threw (which leaves the loop).
\* throwers are the handlers that throw when called with this message.
RECURSIVE invoke(_, _, _, _)
invoke(list, data, throwers, calls) ==
    IF list = <<>> THEN [calls |-> calls, threw |-> FALSE]
    ELSE LET call == [h |-> Head(list), data |-> data]
         IN  IF Head(list) \in throwers
             THEN [calls |-> Append(calls, call), threw |-> TRUE]
             ELSE invoke(Tail(list), data, throwers, Append(calls, call))

\* The data of a message event:
\*   kind "garbage"   JSON.parse throws
\*        "null"      parses to null, so that reading msg.type throws
\*        "envelope"  parses to {type, data}
RawMessages(types, datas) ==
    [kind : {"garbage", "null"}, type : {"none"}, data : {Null}]
    \cup [kind : {"envelope"}, type : types, data : datas]

\* an onmessage that gives what it cannot decode to the dashboard handlers
onmessageUndecoded(m, raw, throwers) ==
    IF raw.kind # "envelope" THEN invoke(get(m, "dashboard"), Null, throwers, <<>>)
    ELSE invoke(get(m, raw.type), raw.data, throwers, <<>>)

\* ws.onmessage: the handler calls it makes
onmessage(m, raw, throwers) ==
    IF raw.kind # "envelope" THEN [calls |-> <<>>, threw |-> TRUE]
    ELSE invoke(get(m, raw.type), raw.data, throwers, <<>>)

\* ------------------------------------------------------------ the client
\* The client's state outside the WSManager, as one value, so that a callback
\* that calls other functions is the composition of their effects.
World ==
    [store |-> store, layout |-> layout, lab |-> lab,
     net |-> net, refresh |-> refresh, remote |-> remote, hist |-> hist,
     board |-> board]

Commit(w) ==
    /\ store' = w.store
    /\ layout' = w.layout
    /\ lab' = w.lab
    /\ net' = w.net
    /\ refresh' = w.refresh
    /\ remote' = w.remote
    /\ hist' = w.hist
    /\ board' = w.board

clientVars == <<store, layout, lab, net, refresh, remote, hist, board>>
wsVars == <<wsm, lastOp, userDown, regs, disp>>

Remove(seq, i) == SubSeq(seq, 1, i - 1) \o SubSeq(seq, i + 1, Len(seq))

\* A request in flight: the endpoint, the code that awaits it, the job it asks
\* about, the remote data it will carry back (the service answers it when it
\* is issued; the answer travels for any time), and whether the component
\* that issued it is still the mounted one.
Request(api, by, job, ver, desc, live) ==
    [api |-> api, by |-> by, job |-> job, ver |-> ver, desc |-> desc, live |-> live]

issue(w, req) == [w EXCEPT !.net = Append(@, req)]

\* The requests whose promise is not awaited but given a setter
\* (api.getX().then(setX).catch(() => {})).  Requests for the same endpoint
\* that carry the same data back are not told apart: refresh holds the kinds
\* of request of which at least one is in flight, and an answer leaves its
\* kind in flight or not.  Only the answer to "jobs" goes to a state setter
\* of the component, so only it records whether its instance is mounted.
issueRefresh(w, api, ver, live) ==
    [w EXCEPT !.refresh = @ \cup {[api |-> api, ver |-> ver, live |-> live]}]

InFlight(w, api) == {i \in 1..Len(w.net) : w.net[i].api = api}

\* history of the writes to the dashboard slot
noteDashboard(w, v, by) ==
    [w EXCEPT !.hist.dashLast = v,
              !.hist.dashBy = by,
              !.hist.dashMax = IF v > @ THEN v ELSE @]

\* history of the answers delivered
noteAnswer(w, ev, res) == [w EXCEPT !.hist.ev = ev, !.hist.res = res]

\* history of the answers delivered after the teardown of the view that
\* asked: the endpoints they came from
noteLate(w, api, late) == IF late THEN [w EXCEPT !.hist.late = @ \cup {api}] ELSE w

\* ----------------------------------------------------------------- Layout
\* fetchAll, up to its await: the request for the dashboard
fetchAll(w) ==
    issue(w, Request("dashboard", "poll", Null, w.remote.ver, NullJob, TRUE))

\* a fetchAll whose try block does not write the dashboard
fetchAllDoneNoWrite(w, req, res, now) ==
    LET r == fetchJSON(res)
    IN  IF ~r.threw
        THEN [w EXCEPT !.store = setError(setLastUpdate(@, now), NoMsg)]
        ELSE [w EXCEPT !.store = setError(@, r.message)]

\* a fetchAll whose catch block pulls again
fetchAllDoneRetry(w, req, res, now) ==
    LET r == fetchJSON(res)
    IN  IF ~r.threw
        THEN noteDashboard(
                 [w EXCEPT !.store =
                     setError(setLastUpdate(setDashboard(@, req.ver), now), NoMsg)],
                 req.ver, "poll")
        ELSE fetchAll([w EXCEPT !.store = setError(@, r.message)])

\* a fetchAll that writes nothing once Layout is unmounted
fetchAllDoneMounted(w, req, res, now) ==
    LET r == fetchJSON(res)
    IN  IF ~w.layout.mounted THEN w
        ELSE IF ~r.threw
        THEN noteDashboard(
                 [w EXCEPT !.store =
                     setError(setLastUpdate(setDashboard(@, req.ver), now), NoMsg)],
                 req.ver, "poll")
        ELSE [w EXCEPT !.store = setError(@, r.message)]

\* fetchAll, after its await: the try block's writes or the catch block's
fetchAllDone(w, req, res, now) ==
    LET r == fetchJSON(res)
    IN  IF ~r.threw
        THEN noteDashboard(
                 [w EXCEPT !.store =
                     setError(setLastUpdate(setDashboard(@, req.ver), now), NoMsg)],
                 req.ver, "poll")
        ELSE [w EXCEPT !.store = setError(@, r.message)]

\* a handleDashboard that clears the error as fetchAll does
handleDashboardClearsError(w, data, now) ==
    noteDashboard([w EXCEPT !.store =
                      setError(setLastUpdate(setDashboard(@, data), now), NoMsg)],
                  data, "push")

\* handleDashboard, the handler Layout registers for the topic "dashboard"
handleDashboard(w, data, now) ==
    noteDashboard([w EXCEPT !.store = setLastUpdate(setDashboard(@, data), now)], data, "push")

\* the effects of the handler calls of one message event, in order
RECURSIVE runHandlers(_, _, _)
runHandlers(w, calls, now) ==
    IF calls = <<>> THEN w
    ELSE LET c == Head(calls)
             w1 == IF c.h = "handleDashboard" THEN handleDashboard(w, c.data, now)
                   ELSE w
         IN  runHandlers(w1, Tail(calls), now)

\* ------------------------------------------------------------ BacktestLab
\* the terminal statuses of a job
Terminal == {"completed", "failed"}

\* a terminal test that forgets failed
isTerminalCompletedOnly(status) == status.status = "completed"

\* status.status === 'completed' || status.status === 'failed' (line 36)
isTerminal(status) == status.status = "completed" \/ status.status = "failed"

\* the descriptor the service returns for job j
Descriptor(w, j) ==
    [job_id |-> j,
     status |-> w.remote.jobs[j].status,
     progress |-> w.remote.jobs[j].progress,
     error |-> w.remote.jobs[j].error,
     params |-> w.remote.jobs[j].params]

\* setInterval(..., 500) in the poll effect; the callback polls job j
setInterval(w, j) ==
    LET free == TimerIds \ {x.id : x \in w.lab.intervals}
    IN  IF free = {} THEN [w EXCEPT !.lab.interval = Null]
        ELSE [w EXCEPT !.lab.intervals = @ \cup {[id |-> Min(free), job |-> j]},
                       !.lab.interval = Min(free)]

\* a cleanup that empties the active-job slot too
clearIntervalAndSlot(w) ==
    [w EXCEPT !.lab.intervals = {x \in @ : x.id # w.lab.interval},
              !.lab.interval = Null,
              !.store = setActiveBacktest(@, NullJob)]

\* clearInterval(interval), the cleanup the poll effect returns
clearInterval(w) ==
    [w EXCEPT !.lab.intervals = {x \in @ : x.id # w.lab.interval},
              !.lab.interval = Null]

\* The effect "Poll for job list" (lines 23-25)
jobsEffect(w) == issueRefresh(w, "jobs", Len(w.remote.jobs), TRUE)

\* the body of the effect "Poll active backtest progress" (lines 28-50)
pollEffectBody(w) ==
    LET ab == w.store.activeBacktest
    IN  IF ab = NullJob \/ ab.status # "running" THEN w
        ELSE setInterval(w, ab.job_id)

\* a poll effect that returns no cleanup
pollEffectNoCleanup(w) == pollEffectBody(w)

\* the poll effect re-run by React: the cleanup of the previous run, the body
pollEffect(w) == pollEffectBody(clearInterval(w))

\* activeBacktest changed: React re-runs the effects that depend on it, in
\* the order the component declares them, if the component is mounted
syncEffects(w) ==
    IF w.lab.mounted THEN pollEffect(jobsEffect(w)) ELSE w

LabInit ==
    [mounted |-> FALSE, running |-> FALSE, error |-> NoMsg, jobs |-> Null,
     params |-> "ES", interval |-> Null, intervals |-> {}]

\* BacktestLab is mounted: fresh local state, then every effect runs
labMount(w) ==
    pollEffectBody(jobsEffect([w EXCEPT !.lab = [LabInit EXCEPT !.mounted = TRUE,
                                                   !.intervals = w.lab.intervals],
                                        !.hist.mounts = @ + 1]))

\* BacktestLab is unmounted: the effects' cleanups run; requests it awaits
\* stay in flight, and their continuations run later on the dead instance
labUnmount(w) ==
    LET w1 == clearInterval(w)
    IN  [w1 EXCEPT !.lab = [LabInit EXCEPT !.intervals = w1.lab.intervals],
                   !.net = [i \in 1..Len(@) |->
                               IF @[i].by = "lab" THEN [@[i] EXCEPT !.live = FALSE]
                               ELSE @[i]],
                   !.refresh = {IF k.api = "jobs" THEN [k EXCEPT !.live = FALSE] ELSE k :
                                   k \in @}]

\* handleRun, up to its await
handleRun(w) ==
    issue([w EXCEPT !.lab.error = NoMsg, !.lab.running = TRUE],
          Request("run", "lab", Null, Null, [NullJob EXCEPT !.params = w.lab.params], TRUE))

\* a handleRun that stores the params of the form as they are at the answer
handleRunDoneFormParams(w, req, res, first) ==
    LET r == fetchJSON(res)
        j == Len(w.remote.jobs) + 1
    IN  IF ~r.threw
        THEN LET w1 == [w EXCEPT !.remote.jobs =
                           Append(@, [status |-> first, progress |-> 0, error |-> NoMsg,
                                      params |-> req.desc.params])]
                 w2 == [w1 EXCEPT !.store = setActiveBacktest(@,
                           [job_id |-> j, status |-> "running",
                            progress |-> 0, error |-> NoMsg,
                            params |-> w.lab.params])]
             IN  syncEffects(w2)
        ELSE IF req.live
             THEN [w EXCEPT !.lab.error = r.message, !.lab.running = FALSE]
             ELSE w

\* handleRun, after its await.  The service creates the job, in the status
\* first, when it answers ok.  State setters of a dead instance do nothing.
handleRunDone(w, req, res, first) ==
    LET r == fetchJSON(res)
        j == Len(w.remote.jobs) + 1
    IN  IF ~r.threw
        THEN LET w1 == [w EXCEPT !.remote.jobs =
                           Append(@, [status |-> first, progress |-> 0, error |-> NoMsg,
                                      params |-> req.desc.params])]
                 w2 == [w1 EXCEPT !.store = setActiveBacktest(@,
                           [job_id |-> j, status |-> "running",
                            progress |-> 0, error |-> NoMsg,
                            params |-> req.desc.params])]
             IN  syncEffects(w2)
        ELSE IF req.live
             THEN [w EXCEPT !.lab.error = r.message, !.lab.running = FALSE]
             ELSE w

\* the interval callback of the poll effect, up to its await
pollTick(w, j) ==
    LET w1 == issue(w, Request("status", "lab", j, Null, Descriptor(w, j), TRUE))
    IN  [w1 EXCEPT !.hist.polls[j] = @ + 1,
                   !.hist.timely[j] = @ /\ ~(\E i \in InFlight(w, "status") :
                                                 w.net[i].job = j)]

\* the refresh after a terminal status (lines 39-42)
cascade(w, req) ==
    LET w1 == issueRefresh(w, "dashboard", w.remote.ver, TRUE)
        w2 == issueRefresh(w1, "equity", w.remote.ver, TRUE)
        w3 == issueRefresh(w2, "trades", w.remote.ver, TRUE)
        w4 == issueRefresh(w3, "jobs", Len(w.remote.jobs), req.live)
    IN  [w4 EXCEPT !.hist.cascades[req.job] = @ + 1]

\* a refresh that is issued again when it fails
refreshDoneRetry(w, k, res) ==
    IF fetchJSON(res).threw THEN issueRefresh(w, k.api, k.ver, k.live)
    ELSE IF k.api = "dashboard"
    THEN noteDashboard([w EXCEPT !.store = setDashboard(@, k.ver)], k.ver, "cascade")
    ELSE IF k.api = "equity" THEN [w EXCEPT !.store = setEquityCurve(@, k.ver)]
    ELSE IF k.api = "trades" THEN [w EXCEPT !.store = setTrades(@, k.ver)]
    ELSE IF k.live THEN [w EXCEPT !.lab.jobs = k.ver]
    ELSE w

\* a refresh whose dashboard is written as fetchAll writes it
refreshDoneAsPull(w, k, res) ==
    IF fetchJSON(res).threw THEN w
    ELSE IF k.api = "dashboard"
    THEN noteDashboard([w EXCEPT !.store =
                           setError(setLastUpdate(setDashboard(@, k.ver), MaxClock), NoMsg)],
                       k.ver, "cascade")
    ELSE IF k.api = "equity" THEN [w EXCEPT !.store = setEquityCurve(@, k.ver)]
    ELSE IF k.api = "trades" THEN [w EXCEPT !.store = setTrades(@, k.ver)]
    ELSE IF k.live THEN [w EXCEPT !.lab.jobs = k.ver]
    ELSE w

\* api.getX().then(setX).catch(() => {}), after the answer: the setter is
\* called with the data, or the rejection is swallowed; setJobs of a dead
\* instance does nothing
refreshDone(w, k, res) ==
    IF fetchJSON(res).threw THEN w
    ELSE IF k.api = "dashboard"
    THEN noteDashboard([w EXCEPT !.store = setDashboard(@, k.ver)], k.ver, "cascade")
    ELSE IF k.api = "equity" THEN [w EXCEPT !.store = setEquityCurve(@, k.ver)]
    ELSE IF k.api = "trades" THEN [w EXCEPT !.store = setTrades(@, k.ver)]
    ELSE IF k.live THEN [w EXCEPT !.lab.jobs = k.ver]
    ELSE w

\* a poll callback that reports a failed job as an error of the store and
\* does not refresh
pollDoneFailedAsError(w, req, res) ==
    LET r == fetchJSON(res)
        j == req.job
    IN  IF r.threw THEN [w EXCEPT !.hist.answered[j] = FALSE]
        ELSE LET status == req.desc
                 w1 == [w EXCEPT !.store = setActiveBacktest(@, status),
                                 !.hist.writes[j] = @ + 1,
                                 !.hist.runs[j] =
                                     IF status.status = "running" THEN @ + 1 ELSE @,
                                 !.hist.terms[j] =
                                     IF status.status \in Terminal THEN @ + 1 ELSE @,
                                 !.hist.answered[j] =
                                     @ /\ status.status # "queued"]
                 w2 == IF status.status = "failed"
                       THEN [w1 EXCEPT !.store = setError(@, status.error)]
                       ELSE IF isTerminal(status)
                       THEN cascade([w1 EXCEPT !.lab.running =
                                        IF req.live THEN FALSE ELSE @], req)
                       ELSE w1
             IN  syncEffects(w2)

\* the interval callback of the poll effect, after its await
pollDone(w, req, res) ==
    LET r == fetchJSON(res)
        j == req.job
    IN  IF r.threw THEN [w EXCEPT !.hist.answered[j] = FALSE]
        ELSE LET status == req.desc
                 w1 == [w EXCEPT !.store = setActiveBacktest(@, status),
                                 !.hist.writes[j] = @ + 1,
                                 !.hist.runs[j] =
                                     IF status.status = "running" THEN @ + 1 ELSE @,
                                 !.hist.terms[j] =
                                     IF status.status \in Terminal THEN @ + 1 ELSE @,
                                 !.hist.answered[j] =
                                     @ /\ status.status # "queued"]
                 w2 == IF isTerminal(status)
                       THEN cascade([w1 EXCEPT !.lab.running =
                                        IF req.live THEN FALSE ELSE @], req)
                       ELSE w1
             IN  syncEffects(w2)


\* ------------------------------------------------------------- ToggleBoard
\* The toggles the service has; is_safety is a fixed field of a toggle.  No
\* toggle has parents, so that raw_value equals enabled and no button is
\* disabled by a parent.
SafetyToggles == {"kill_switch", "risk_gate"}
ToggleIds == SafetyToggles \cup {"news_filter"}
is_safety(id) == id \in SafetyToggles

\* The component after useState (lines 21-22), with the requests it has in
\* flight, the 3000 ms timeouts of its instance that have not fired, the
\* enabled flag of every toggle on the service, and whether the toggles slot
\* of the store holds the list of the service (it starts empty).
BoardInit ==
    [mounted |-> FALSE,
     loaded |-> FALSE,
     pending |-> NoMsg,
     confirmId |-> NoMsg,
     timers |-> 0,
     reqs |-> <<>>,
     server |-> [t \in ToggleIds |-> TRUE]]

\* A request of the board in flight: the endpoint, the code that awaits it,
\* the toggle and the value it sets, and whether the instance that issued it
\* is still the mounted one.  The service sets the toggle, and reads the list,
\* when it answers.
ToggleRequest(api, by, id, enabled, live) ==
    [api |-> api, by |-> by, id |-> id, enabled |-> enabled, live |-> live]

\* the board is rendered: fresh state, and the effect of lines 24-26
boardMount(w) ==
    [w EXCEPT !.board.mounted = TRUE,
              !.board.pending = NoMsg,
              !.board.confirmId = NoMsg,
              !.board.timers = 0,
              !.board.reqs = Append(@, ToggleRequest("getToggles", "effect", NoMsg,
                                                     FALSE, TRUE))]

\* the board is replaced: the setters of its instance no longer write, so
\* that its timeouts fire to no effect
boardUnmount(w) ==
    [w EXCEPT !.board.mounted = FALSE,
              !.board.timers = 0,
              !.board.reqs = [i \in 1..Len(@) |-> [@[i] EXCEPT !.live = FALSE]]]

\* a handleToggle that takes any armed toggle for the confirmation
handleToggleAnyArmed(w, id, current, isSafety) ==
    IF isSafety /\ current /\ w.board.confirmId = NoMsg
    THEN [w EXCEPT !.board.confirmId = id, !.board.timers = @ + 1]
    ELSE LET w1 == IF isSafety /\ current THEN [w EXCEPT !.board.confirmId = NoMsg] ELSE w
         IN  [w1 EXCEPT !.board.pending = id,
                        !.board.reqs = Append(@, ToggleRequest("setToggle", "handleToggle", id,
                                                               ~current, TRUE))]
\* handleToggle up to its first await (lines 28-42)
handleToggle(w, id, current, isSafety) ==
    IF isSafety /\ current /\ w.board.confirmId # id
    THEN \* setConfirmId(id); setTimeout(() => setConfirmId(null), 3000); return
         [w EXCEPT !.board.confirmId = id, !.board.timers = @ + 1]
    ELSE LET w1 == IF isSafety /\ current THEN [w EXCEPT !.board.confirmId = NoMsg] ELSE w
         IN  [w1 EXCEPT !.board.pending = id,
                        !.board.reqs = Append(@, ToggleRequest("setToggle", "handleToggle", id,
                                                               ~current, TRUE))]

\* setPending(null), of the instance that made the request
setPendingNull(w, req) == IF req.live THEN [w EXCEPT !.board.pending = NoMsg] ELSE w

\* handleToggle from the answer of api.setToggle (lines 42-48): the service
\* has set the toggle and the list is asked for, or the catch
setToggleDone(w, req, res) ==
    IF fetchJSON(res).threw THEN setPendingNull(w, req)
    ELSE [w EXCEPT !.board.server[req.id] = req.enabled,
                   !.board.reqs = Append(@, ToggleRequest("getToggles", req.by, NoMsg,
                                                          FALSE, req.live))]

\* the answer of api.getToggles: .then(setToggles) of the effect (line 25), or
\* handleToggle from its second await (lines 43-48)
getTogglesDone(w, req, res) ==
    LET w1 == IF fetchJSON(res).threw THEN w
              ELSE [w EXCEPT !.store = setToggles(@, w.board.server), !.board.loaded = TRUE]
    IN  IF req.by = "handleToggle" THEN setPendingNull(w1, req) ELSE w1
\* ------------------------------------------------------ WSManager actions
Op(name, s) == [op |-> name, sock |-> s, timerBefore |-> wsm.reconnectTimer # Null]

\* the handlers registered for a topic according to the history of on/off
Registered(type) == regs[type]

\* the step is a message event
MessageEvent == lastOp'.op = "message"

\* a caller calls wsManager.connect()
Connect ==
    /\ CanConnect(wsm)
    /\ wsm' = connect(wsm)
    /\ lastOp' = Op("connect", wsm.ws)
    /\ userDown' = FALSE
    /\ UNCHANGED <<regs, disp, clientVars>>

\* a caller calls wsManager.disconnect()
Disconnect ==
    /\ wsm' = disconnect(wsm)
    /\ lastOp' = Op("disconnect", wsm.ws)
    /\ userDown' = TRUE
    /\ UNCHANGED <<regs, disp, clientVars>>

\* a caller calls wsManager.on(type, h)
On(type, h) ==
    /\ Len(get(wsm, type)) < MaxHandlers
    /\ wsm' = on(wsm, type, h)
    /\ regs' = [regs EXCEPT ![type] = Append(@, h)]
    /\ lastOp' = Op("on", wsm.ws)
    /\ UNCHANGED <<userDown, disp, clientVars>>

\* a caller calls wsManager.off(type, h)
Off(type, h) ==
    /\ wsm' = off(wsm, type, h)
    /\ regs' = [regs EXCEPT ![type] = SelectSeq(@, LAMBDA r : r # h)]
    /\ lastOp' = Op("off", wsm.ws)
    /\ UNCHANGED <<userDown, disp, clientVars>>

\* the browser reports that socket s is connected: readyState OPEN, open event
SocketOpen(s) ==
    /\ wsm.socks[s] = "CONNECTING"
    /\ wsm' = onopen([wsm EXCEPT !.socks[s] = "OPEN"])
    /\ lastOp' = Op("open", s)
    /\ UNCHANGED <<userDown, regs, disp, clientVars>>

\* the connection of s ends cleanly (the peer closed it, or the closing
\* handshake started by close() completed): readyState CLOSED, close event
SocketClose(s) ==
    /\ wsm.socks[s] \in {"OPEN", "CLOSING"}
    /\ wsm' = onclose([wsm EXCEPT !.socks[s] = "CLOSED"])
    /\ lastOp' = Op("close", s)
    /\ UNCHANGED <<userDown, regs, disp, clientVars>>

\* the connection of s fails (cannot be established, is lost, or is closed
\* before it was established): readyState CLOSED, error event, close event,
\* all in one task
SocketError(s) ==
    /\ wsm.socks[s] \in {"CONNECTING", "OPEN", "CLOSING", "ABORTING"}
    /\ wsm' = onclose(onerror([wsm EXCEPT !.socks[s] = "CLOSED"]))
    /\ lastOp' = Op("error", s)
    /\ UNCHANGED <<userDown, regs, disp, clientVars>>

\* the 2000 ms timeout t set by scheduleReconnect fires
ReconnectTimerFires(t) ==
    /\ t \in wsm.timers
    /\ CanConnect([wsm EXCEPT !.reconnectTimer = Null])
    /\ wsm' = reconnectCallback([wsm EXCEPT !.timers = @ \ {t}])
    /\ lastOp' = Op("timer", wsm.ws)
    /\ UNCHANGED <<userDown, regs, disp, clientVars>>

\* a message event on the open socket s; the handlers in throwers throw
SocketMessage(s, raw, throwers, now) ==
    /\ wsm.socks[s] = "OPEN"
    /\ LET r == onmessage(wsm, raw, throwers)
       IN  /\ disp' = [raw |-> raw, calls |-> r.calls, threw |-> r.threw]
           /\ Commit(runHandlers(World, r.calls, now))
    /\ lastOp' = Op("message", s)
    /\ UNCHANGED <<wsm, userDown, regs>>

\* ---------------------------------------------------------- Layout actions
\* Layout is mounted: the effects of the panel it renders run first, then
\* its own effect (lines 35-45)
LayoutMount ==
    /\ ~layout.mounted
    /\ store.activePanel = "backtest-lab" => hist.mounts < MaxMounts
    /\ store.activePanel = "toggle-board" => Len(board.reqs) < MaxInFlight
    /\ Cardinality(InFlight(World, "dashboard")) < MaxInFlight
    /\ CanConnect(wsm)
    /\ Len(get(wsm, "dashboard")) < MaxHandlers
    /\ LET w1 == IF store.activePanel = "backtest-lab" THEN labMount(World)
                 ELSE IF store.activePanel = "toggle-board" THEN boardMount(World)
                 ELSE World
           w2 == fetchAll(w1)
       IN  Commit([w2 EXCEPT !.layout = [mounted |-> TRUE, interval |-> TRUE]])
    /\ wsm' = on(connect(wsm), "dashboard", "handleDashboard")
    /\ regs' = [regs EXCEPT !["dashboard"] = Append(@, "handleDashboard")]
    /\ lastOp' = Op("connect", wsm.ws)
    /\ userDown' = FALSE
    /\ UNCHANGED disp

\* an unmount whose cleanup leaves the interval running
LayoutUnmountKeepInterval ==
    /\ layout.mounted
    /\ LET w1 == IF lab.mounted THEN labUnmount(World)
                 ELSE IF board.mounted THEN boardUnmount(World)
                 ELSE World
       IN  Commit([w1 EXCEPT !.layout = [mounted |-> FALSE, interval |-> TRUE]])
    /\ wsm' = off(wsm, "dashboard", "handleDashboard")
    /\ regs' = [regs EXCEPT !["dashboard"] =
                          SelectSeq(@, LAMBDA r : r # "handleDashboard")]
    /\ lastOp' = Op("off", wsm.ws)
    /\ UNCHANGED <<userDown, disp>>

\* Layout is unmounted: its effect's cleanup (lines 47-50), and the cleanups
\* of the panel it renders
LayoutUnmount ==
    /\ layout.mounted
    /\ LET w1 == IF lab.mounted THEN labUnmount(World)
                 ELSE IF board.mounted THEN boardUnmount(World)
                 ELSE World
       IN  Commit([w1 EXCEPT !.layout = [mounted |-> FALSE, interval |-> FALSE]])
    /\ wsm' = off(wsm, "dashboard", "handleDashboard")
    /\ regs' = [regs EXCEPT !["dashboard"] =
                          SelectSeq(@, LAMBDA r : r # "handleDashboard")]
    /\ lastOp' = Op("off", wsm.ws)
    /\ UNCHANGED <<userDown, disp>>

\* the 2000 ms interval of Layout ticks
PollTick ==
    /\ layout.interval
    /\ Cardinality(InFlight(World, "dashboard")) < MaxInFlight
    /\ Commit(fetchAll(World))
    /\ UNCHANGED wsVars

\* the request of a fetchAll is answered
DashPollResponse(i, res, now) ==
    /\ net[i].api = "dashboard"
    /\ Commit(noteLate(noteAnswer(
           fetchAllDone([World EXCEPT !.net = Remove(@, i)], net[i], res, now),
           "fetchAll", res), "dashboard", ~layout.mounted))
    /\ UNCHANGED wsVars

\* the remote data change
RemoteChange ==
    /\ remote.ver < MaxVer
    /\ remote' = [remote EXCEPT !.ver = @ + 1]
    /\ UNCHANGED <<store, layout, lab, net, refresh, hist, board, wsVars>>

\* ----------------------------------------------------- BacktestLab actions
\* a click in the sidebar: setActivePanel, and the panel is replaced
SelectPanel(p) ==
    /\ layout.mounted
    /\ p # store.activePanel
    /\ p = "backtest-lab" => hist.mounts < MaxMounts
    /\ p = "toggle-board" => Len(board.reqs) < MaxInFlight
    /\ LET w1 == [World EXCEPT !.store = setActivePanel(@, p)]
           w2 == IF board.mounted THEN boardUnmount(w1) ELSE w1
       IN  Commit(IF p = "backtest-lab" THEN labMount(w2)
                  ELSE IF p = "toggle-board" THEN boardMount(w2)
                  ELSE IF lab.mounted THEN labUnmount(w2) ELSE w2)
    /\ UNCHANGED wsVars

\* the instrument is chosen in the form: setParams({ ...params, instrument })
SetParams(p) ==
    /\ lab.mounted
    /\ p # lab.params
    /\ lab' = [lab EXCEPT !.params = p]
    /\ UNCHANGED <<store, layout, net, refresh, remote, hist, board, wsVars>>

\* a click on "Run Backtest", one of n at most; the button is disabled
\* while running
SubmitWithin(n) ==
    /\ lab.mounted
    /\ ~lab.running
    /\ Len(remote.jobs) + Cardinality(InFlight(World, "run")) < n
    /\ Commit(handleRun(World))
    /\ UNCHANGED wsVars

Submit == SubmitWithin(MaxJobs)

\* the request of handleRun is answered
RunResponse(i, res, first) ==
    /\ net[i].api = "run"
    /\ Commit(handleRunDone([World EXCEPT !.net = Remove(@, i)], net[i], res, first))
    /\ UNCHANGED wsVars

RECURSIVE Sum(_, _)
Sum(f, S) == IF S = {} THEN 0
             ELSE LET x == CHOOSE y \in S : TRUE IN f[x] + Sum(f, S \ {x})

\* status requests issued so far
PollsIssued == Sum(hist.polls, JobIds)

\* the 500 ms interval x of the poll effect ticks
JobTick(x) ==
    /\ x \in lab.intervals
    /\ PollsIssued < MaxPolls
    /\ Commit(pollTick(World, x.job))
    /\ UNCHANGED wsVars

\* a status request is answered
StatusResponse(i, res) ==
    /\ net[i].api = "status"
    /\ Commit(noteLate(pollDone([World EXCEPT !.net = Remove(@, i)], net[i], res),
                       "status", ~net[i].live))
    /\ UNCHANGED wsVars


\* The job j advances at the remote service.  The client reads status as a
\* string and tests it against running, completed and failed only; "queued"
\* stands for every other value.
ServerJobStep(j, to) ==
    /\ j \in 1..Len(remote.jobs)
    /\ LET job == remote.jobs[j]
       IN  \/ /\ to = "running" /\ job.status = "queued"
              /\ remote' = [remote EXCEPT !.jobs[j].status = "running"]
           \/ /\ to = "progress" /\ job.status = "running" /\ job.progress < TotalBars
              /\ remote' = [remote EXCEPT !.jobs[j].progress = TotalBars]
           \/ /\ to = "completed" /\ job.status = "running"
              /\ remote' = [remote EXCEPT !.jobs[j].status = "completed",
                                          !.jobs[j].progress = TotalBars]
           \/ /\ to = "failed" /\ job.status = "running"
              /\ remote' = [remote EXCEPT !.jobs[j].status = "failed",
                                          !.jobs[j].error = "boom"]
    /\ UNCHANGED <<store, layout, lab, net, refresh, hist, board, wsVars>>

\* api.getDashboard().then(setDashboard).catch(() => {}) is answered
CascadeDashResponse(k, res, rest) ==
    /\ k.api = "dashboard" /\ k \in refresh
    /\ Commit(refreshDone([World EXCEPT !.refresh = @ \ rest], k, res))
    /\ UNCHANGED wsVars

\* api.getEquityCurve().then(setEquityCurve).catch(() => {}) is answered
EquityResponse(k, res, rest) ==
    /\ k.api = "equity" /\ k \in refresh
    /\ Commit(refreshDone([World EXCEPT !.refresh = @ \ rest], k, res))
    /\ UNCHANGED wsVars

\* api.getTrades().then(setTrades).catch(() => {}) is answered
TradesResponse(k, res, rest) ==
    /\ k.api = "trades" /\ k \in refresh
    /\ Commit(refreshDone([World EXCEPT !.refresh = @ \ rest], k, res))
    /\ UNCHANGED wsVars

\* api.getBacktestJobs().then(setJobs).catch(() => {}) is answered
JobsResponse(k, res, rest) ==
    /\ k.api = "jobs" /\ k \in refresh
    /\ Commit(refreshDone([World EXCEPT !.refresh = @ \ rest], k, res))
    /\ UNCHANGED wsVars

\* ----------------------------------------------------- ToggleBoard actions
\* a click on the button of toggle id, which is disabled while the toggle is
\* the pending one (lines 83-85): handleToggle(t.id, t.enabled, t.is_safety)
Click(id) ==
    /\ board.mounted /\ board.loaded
    /\ board.pending # id
    /\ Len(board.reqs) < MaxInFlight
    /\ board.timers < MaxTimers
    /\ Commit(handleToggle(World, id, store.toggles[id], is_safety(id)))
    /\ UNCHANGED wsVars

\* a 3000 ms timeout of the mounted board fires: setConfirmId(null)
ConfirmTimeout ==
    /\ board.timers > 0
    /\ board' = [board EXCEPT !.timers = @ - 1, !.confirmId = NoMsg]
    /\ UNCHANGED <<store, layout, lab, net, refresh, remote, hist, wsVars>>

\* api.setToggle is answered
SetToggleResponse(i, res) ==
    /\ i \in 1..Len(board.reqs)
    /\ board.reqs[i].api = "setToggle"
    /\ Commit(setToggleDone([World EXCEPT !.board.reqs = Remove(@, i)], board.reqs[i], res))
    /\ UNCHANGED wsVars

\* api.getToggles is answered
GetTogglesResponse(i, res) ==
    /\ i \in 1..Len(board.reqs)
    /\ board.reqs[i].api = "getToggles"
    /\ Commit(getTogglesDone([World EXCEPT !.board.reqs = Remove(@, i)], board.reqs[i], res))
    /\ UNCHANGED wsVars

\* ---------------------------------------------------------- specifications
Init ==
    /\ wsm = [ws |-> Null,
              handlers |-> [t \in Topics |-> <<>>],
              reconnectTimer |-> Null,
              socks |-> [s \in SockIds |-> "CLOSED"],
              timers |-> {}]
    /\ StoreInit
    /\ layout = [mounted |-> FALSE, interval |-> FALSE]
    /\ lab = LabInit
    /\ board = BoardInit
    /\ net = <<>>
    /\ refresh = {}
    /\ remote = [ver |-> 1, jobs |-> <<>>]
    /\ lastOp = [op |-> "new", sock |-> Null, timerBefore |-> FALSE]
    /\ userDown = FALSE
    /\ regs = [t \in Topics |-> <<>>]
    /\ disp = [raw |-> [kind |-> "none", type |-> "none", data |-> Null],
               calls |-> <<>>, threw |-> FALSE]
    /\ hist = [polls |-> [j \in JobIds |-> 0],
               writes |-> [j \in JobIds |-> 0],
               runs |-> [j \in JobIds |-> 0],
               terms |-> [j \in JobIds |-> 0],
               cascades |-> [j \in JobIds |-> 0],
               timely |-> [j \in JobIds |-> TRUE],
               answered |-> [j \in JobIds |-> TRUE],
               mounts |-> 0,
               dashLast |-> Null,
               dashMax |-> Null,
               dashBy |-> "none",
               late |-> {},
               ev |-> "none",
               res |-> OkResponse]

\* The connection manager under every order of calls, socket events and timers.
ConnNext ==
    \/ Connect
    \/ Disconnect
    \/ \E s \in SockIds : SocketOpen(s)
    \/ \E s \in SockIds : SocketClose(s)
    \/ \E s \in SockIds : SocketError(s)
    \/ \E t \in TimerIds : ReconnectTimerFires(t)

SpecConn == Init /\ [][ConnNext]_vars

\* The registry and the dispatch of messages on one connection.
DispMessages == RawMessages(Topics \cup {"unknown"}, {1, MaxVer})
Throwers == {{}} \cup {{h} : h \in AbstractHandlers}

DispNext ==
    \/ (wsm.ws = Null /\ Connect)
    \/ \E s \in SockIds : SocketOpen(s)
    \/ \E t \in Topics, h \in AbstractHandlers : On(t, h)
    \/ \E t \in Topics, h \in AbstractHandlers : Off(t, h)
    \/ \E s \in SockIds, raw \in DispMessages, thr \in Throwers :
           SocketMessage(s, raw, thr, MaxClock)

SpecDisp == Init /\ [][DispNext]_vars

\* The job tracker: the panel, one click after another, the status polls of
\* the job and the refreshes that follow its end.  Layout's own interval the
\* push channel and the answers to the refreshes are left out: they write no
\* state the tracker reads.
BadGateway == [kind |-> "response", ok |-> FALSE, json |-> "object", detail |-> "bad gateway"]
JobOutcomes == {OkResponse, BadGateway}
Indexes == 1..Len(net)

JobNext ==
    \/ LayoutMount
    \/ \E p \in Panels : SelectPanel(p)
    \/ Submit
    \/ \E i \in Indexes, res \in JobOutcomes, first \in {"queued", "running"} :
           RunResponse(i, res, first)
    \/ \E x \in lab.intervals : JobTick(x)
    \/ \E i \in Indexes, res \in JobOutcomes : StatusResponse(i, res)
    \/ \E j \in JobIds, to \in {"running", "progress", "completed", "failed"} :
           ServerJobStep(j, to)

SpecJob == Init /\ [][JobNext]_vars


\* The poll scheduler: Layout mounted and unmounted, its 2000 ms interval,
\* and every outcome of a dashboard pull.
PullNext ==
    \/ LayoutMount
    \/ LayoutUnmount
    \/ PollTick
    \/ \E i \in Indexes, res \in Outcomes, now \in Now(store) :
           DashPollResponse(i, res, now)
    \/ RemoteChange

SpecPull == Init /\ [][PullNext]_vars

\* The writers of the dashboard slot together: the poll scheduler, the
\* handler of the push channel and the cascade of a job.  A pushed snapshot
\* is the remote dashboard of now or of before.  The job is there for its
\* cascade only: it is submitted from the panel once selected, has completed
\* when it is polled, and every request about it succeeds.  The clock, which
\* no writer of the dashboard reads, stands at its last reading.
DashMessages == RawMessages({"dashboard"}, Versions) \ RawMessages({}, {})

DashNext ==
    \/ LayoutMount
    \/ PollTick
    \/ \E i \in Indexes, res \in JobOutcomes : DashPollResponse(i, res, MaxClock)
    \/ RemoteChange
    \/ \E s \in SockIds : SocketOpen(s)
    \/ \E s \in SockIds, raw \in DashMessages :
           raw.data <= remote.ver /\ SocketMessage(s, raw, {}, MaxClock)
    \/ SelectPanel("backtest-lab")
    \/ (remote.jobs = <<>> /\ Submit)
    \/ \E i \in Indexes : RunResponse(i, OkResponse, "running")
    \/ \E x \in lab.intervals :
           remote.jobs[x.job].status = "completed" /\ JobTick(x)
    \/ \E i \in Indexes : StatusResponse(i, OkResponse)
    \/ \E j \in JobIds : ServerJobStep(j, "completed")
    \/ \E k \in refresh, res \in JobOutcomes :
           \E rest \in {{}, {k}} : CascadeDashResponse(k, res, rest)

SpecDash == Init /\ [][DashNext]_vars

\* The teardown of the views while their requests are in flight: Layout
\* mounted and unmounted, and with it the panel, once selected; the dashboard
\* pull of each start, with both outcomes; and one job, polled once it has
\* completed, whose requests the service answers.  The remote dashboard does
\* not change.
TeardownNext ==
    \/ LayoutMount
    \/ LayoutUnmount
    \/ SelectPanel("backtest-lab")
    \/ \E i \in Indexes, res \in JobOutcomes : DashPollResponse(i, res, MaxClock)
    \/ (remote.jobs = <<>> /\ Submit)
    \/ \E i \in Indexes : RunResponse(i, OkResponse, "running")
    \/ \E x \in lab.intervals :
           remote.jobs[x.job].status = "completed" /\ JobTick(x)
    \/ \E i \in Indexes : StatusResponse(i, OkResponse)
    \/ \E j \in JobIds : ServerJobStep(j, "completed")

SpecTeardown == Init /\ [][TeardownNext]_vars

\* The submission of a job: the form, the click, both outcomes of the run
\* request, and the status polls that follow; the job stays as the service
\* created it.
RunNext ==
    \/ LayoutMount
    \/ \E p \in Panels : SelectPanel(p)
    \/ \E p \in Params : SetParams(p)
    \/ Submit
    \/ \E i \in Indexes, res \in JobOutcomes, first \in {"queued", "running"} :
           RunResponse(i, res, first)
    \/ \E x \in lab.intervals : JobTick(x)
    \/ \E i \in Indexes, res \in JobOutcomes : StatusResponse(i, res)

SpecRun == Init /\ [][RunNext]_vars

\* The refreshes of the cascade: one job, submitted from the panel once
\* selected and polled once it has completed, and the answers to the four
\* refreshes in every order, each a success or a failure; a request of a
\* kind stays in flight after an answer or not.
RefreshOutcomes == JobOutcomes \cup {NetworkFailure}

CascadeNext ==
    \/ LayoutMount
    \/ SelectPanel("backtest-lab")
    \/ (remote.jobs = <<>> /\ Submit)
    \/ \E i \in Indexes : RunResponse(i, OkResponse, "running")
    \/ \E x \in lab.intervals :
           remote.jobs[x.job].status = "completed" /\ JobTick(x)
    \/ \E i \in Indexes : StatusResponse(i, OkResponse)
    \/ \E j \in JobIds : ServerJobStep(j, "completed")
    \/ \E k \in refresh, res \in RefreshOutcomes :
           \E rest \in {{}, {k}} :
               \/ CascadeDashResponse(k, res, rest)
               \/ EquityResponse(k, res, rest)
               \/ TradesResponse(k, res, rest)
               \/ JobsResponse(k, res, rest)

SpecCascade == Init /\ [][CascadeNext]_vars

\* The requests for the job list: one job, submitted from the panel once
\* selected, polled while it runs and when it has completed; every request
\* succeeds, and a request for the list stays in flight after an answer or
\* not.
JobListNext ==
    \/ LayoutMount
    \/ SelectPanel("backtest-lab")
    \/ (remote.jobs = <<>> /\ Submit)
    \/ \E i \in Indexes : RunResponse(i, OkResponse, "running")
    \/ \E x \in lab.intervals : JobTick(x)
    \/ \E i \in Indexes : StatusResponse(i, OkResponse)
    \/ \E j \in JobIds : ServerJobStep(j, "completed")
    \/ \E k \in refresh : \E rest \in {{}, {k}} : JobsResponse(k, OkResponse, rest)

SpecJobList == Init /\ [][JobListNext]_vars

\* A job submitted after another: the panel left and selected again, one
\* click after another, the status polls, and the jobs completing; every
\* request succeeds.
ResubmitNext ==
    \/ LayoutMount
    \/ \E p \in Panels : SelectPanel(p)
    \/ SubmitWithin(MaxJobs + 1)
    \/ \E i \in Indexes : RunResponse(i, OkResponse, "running")
    \/ \E x \in lab.intervals : JobTick(x)
    \/ \E i \in Indexes : StatusResponse(i, OkResponse)
    \/ \E j \in JobIds : ServerJobStep(j, "completed")

SpecResubmit == Init /\ [][ResubmitNext]_vars

\* The connection manager when disconnect() is never called; a timeout that
\* is pending fires.
RetryNext ==
    \/ Connect
    \/ \E s \in SockIds : SocketOpen(s)
    \/ \E s \in SockIds : SocketClose(s)
    \/ \E s \in SockIds : SocketError(s)
    \/ \E t \in TimerIds : ReconnectTimerFires(t)

SpecRetry ==
    Init /\ [][RetryNext]_vars /\ \A t \in TimerIds : WF_vars(ReconnectTimerFires(t))

\* The poll scheduler when its interval keeps ticking and a pull succeeds
\* again and again.
PullSucceeds ==
    \E i \in Indexes, now \in Now(store) : DashPollResponse(i, OkResponse, now)

SpecPullFair ==
    Init /\ [][PullNext]_vars /\ WF_vars(PollTick) /\ SF_vars(PullSucceeds)

\* The job tracker when an active interval keeps ticking, the service
\* brings every job to a terminal status, and a status request succeeds
\* again and again.
JobTicks == \E x \in lab.intervals : JobTick(x)
StatusSucceeds == \E i \in Indexes : StatusResponse(i, OkResponse)
JobEnds ==
    \E j \in JobIds, to \in {"running", "completed", "failed"} : ServerJobStep(j, to)

SpecJobFair ==
    Init /\ [][JobNext]_vars
         /\ WF_vars(JobTicks) /\ SF_vars(StatusSucceeds) /\ WF_vars(JobEnds)

\* The toggle board: the console is opened and the board selected or left,
\* the buttons are clicked in every order, the 3000 ms timeouts fire at any
\* time, and the answers of the service arrive in any order, each a success
\* or a failure.
BoardIndexes == 1..Len(board.reqs)

ToggleNext ==
    \/ LayoutMount
    \/ \E p \in {"fleet-health", "toggle-board"} : SelectPanel(p)
    \/ \E id \in ToggleIds : Click(id)
    \/ ConfirmTimeout
    \/ \E i \in BoardIndexes, res \in JobOutcomes : SetToggleResponse(i, res)
    \/ \E i \in BoardIndexes, res \in JobOutcomes : GetTogglesResponse(i, res)

SpecToggle == Init /\ [][ToggleNext]_vars
\* ============================================================ properties
\* ------------------------------------------------------------------ C1
\* C1: for any sequence of connect(), disconnect(), socket open/close/error
\* events and timer firings, at most one reconnection timer is pending, and
\* it is the one the manager holds in reconnectTimer.
C1_AtMostOneReconnectTimer ==
    /\ Cardinality(wsm.timers) <= 1
    /\ wsm.timers = IF wsm.reconnectTimer = Null THEN {} ELSE {wsm.reconnectTimer}

\* a close event was handled while a reconnection timer was already pending
C1_Witness_CloseWhilePending ==
    /\ lastOp.op \in {"close", "error"}
    /\ lastOp.timerBefore
    /\ wsm.timers # {}

\* ------------------------------------------------------------------ C2
\* C2: after disconnect(), until connect() is called again explicitly, no
\* reconnection timer is scheduled and the manager opens no new socket.
C2_NoReconnectAfterDisconnect ==
    userDown => (wsm.reconnectTimer = Null /\ wsm.timers = {} /\ wsm.ws = Null)

\* ------------------------------------------------------------------ C3
\* C3: for each job, the cascade of four refresh pulls is fired exactly
\* once, when a terminal status is observed: never before one is observed,
\* and not again however the ticks and the answers interleave.
C3_CascadeExactlyOnce ==
    \A j \in JobIds :
        hist.cascades[j] = IF hist.terms[j] > 0 THEN 1 ELSE 0

\* ------------------------------------------------------------------ C4
\* C4: once a poll result with a terminal status has been observed for a
\* job, no further status request is issued for it and no poll loop for it
\* is active again.
C4_LoopEndsAtFirstTerminal ==
    [][\A j \in JobIds :
           hist.terms[j] > 0 =>
               /\ hist'.polls[j] = hist.polls[j]
               /\ ~(\E x \in lab'.intervals : x.job = j)]_vars

\* ------------------------------------------------------------------ C5
\* C5: for a given job at most one 500 ms interval timer is active at any
\* instant, whatever the order of submit, tick, answer, write of the
\* active-job slot and mount/unmount of the panel.
C5_AtMostOnePollLoop ==
    \A j \in JobIds : Cardinality({x \in lab.intervals : x.job = j}) <= 1

\* the loop of a job is active after the effect re-created its interval on
\* a write of the active-job slot and again on a second mount of the panel
C5_Witness_LoopRecreated ==
    \E x \in lab.intervals :
        /\ hist.writes[x.job] >= 1
        /\ hist.mounts = 2

\* ------------------------------------------------------------------ C6
\* C6: when every answer arrived before the next tick and the statuses
\* polled were k times running then one terminal status (k >= 0), exactly
\* k+1 status polls were issued, the active-job descriptor was written k+1
\* times by them, and the cascade fired once, with the last of them; before
\* the terminal status it has not fired.
PolledInTime(j) == hist.timely[j] /\ hist.answered[j]

C6_PollsAndCascadeCount ==
    \A j \in JobIds :
        PolledInTime(j) =>
            /\ hist.terms[j] = 0 => hist.cascades[j] = 0
            /\ hist.terms[j] >= 1 =>
                   /\ hist.terms[j] = 1
                   /\ hist.polls[j] = hist.runs[j] + 1
                   /\ hist.writes[j] = hist.runs[j] + 1
                   /\ hist.cascades[j] = 1

\* running once, then a terminal status: two polls, two writes, one cascade
C6_Witness_RunningThenTerminal ==
    \E j \in JobIds :
        /\ PolledInTime(j)
        /\ hist.runs[j] = 1
        /\ hist.terms[j] = 1
        /\ hist.polls[j] = 2
        /\ hist.cascades[j] = 1

\* ------------------------------------------------------------------ C7
\* C7: a read of the dashboard slot returns the value of the write executed
\* last, whichever of the poll scheduler, the push handler and the cascade
\* made it and whatever it replaced.
C7_LastWriteWins == store.dashboard = hist.dashLast

\* the push handler wrote last, an older snapshot than one written before
C7_Witness_StaleOverwrite ==
    /\ hist.dashBy = "push"
    /\ store.dashboard < hist.dashMax

\* ------------------------------------------------------------------ C8
\* C8: for a decoded envelope {type, data}, the handler calls are made with
\* data, in the order of registration for that type, without skipping a
\* handler, and reach every registered handler unless a call threw; a
\* handler registered only for another topic is not called.
DispatchInOrder ==
    LET registered == IF disp'.raw.type \in Topics
                      THEN Registered(disp'.raw.type) ELSE <<>>
    IN  /\ Len(disp'.calls) <= Len(registered)
        /\ \A i \in 1..Len(disp'.calls) :
               disp'.calls[i] = [h |-> registered[i], data |-> disp'.raw.data]
        /\ (~disp'.threw => Len(disp'.calls) = Len(registered))

C8_DispatchInRegistrationOrder ==
    [][(MessageEvent /\ disp'.raw.kind = "envelope") => DispatchInOrder]_vars

\* a dashboard message reached h2 then h1, registered in that order, while
\* h1 was registered for the other topic too
C8_Witness_TwoHandlersInOrder ==
    /\ lastOp.op = "message"
    /\ disp.raw.kind = "envelope"
    /\ disp.raw.type = "dashboard"
    /\ Registered("dashboard") = <<"h2", "h1">>
    /\ Registered("other") = <<"h1">>
    /\ Len(disp.calls) = 2

\* ------------------------------------------------------------------ C9
\* C9: when a handler throws while a message is dispatched, every other
\* handler registered for the topic is still called for that message.
DeliveredToAll ==
    LET registered == IF disp'.raw.type \in Topics
                      THEN Registered(disp'.raw.type) ELSE <<>>
    IN  \A i \in 1..Len(registered) :
            \E k \in 1..Len(disp'.calls) : disp'.calls[k].h = registered[i]

C9_ThrowDoesNotStopDelivery ==
    [][(MessageEvent /\ disp'.raw.kind = "envelope" /\ disp'.threw) => DeliveredToAll]_vars

\* ------------------------------------------------------------------ C10
\* C10: a dashboard pull answered by a non-success response stores in the
\* last-error slot the detail field of the body if there is one (and it is
\* not empty), else the status text, and leaves the dashboard slot and the
\* last-update slot as they were.
PullAnswered == Len(net') < Len(net) /\ hist'.ev = "fetchAll"

ServerMessage(res) ==
    IF res.json = "object" /\ res.detail # Absent /\ res.detail # ""
    THEN res.detail
    ELSE StatusText

C10_NonSuccessPullStoresMessage ==
    [][(PullAnswered /\ hist'.res.kind = "response" /\ ~hist'.res.ok) =>
           /\ store'.error = ServerMessage(hist'.res)
           /\ store'.dashboard = store.dashboard
           /\ store'.lastUpdate = store.lastUpdate]_vars

\* ------------------------------------------------------------------ C11
\* C11: from any state, disconnect() leaves the manager with no socket
\* handle and no pending reconnection timer, and a second disconnect()
\* right after it changes nothing.
C11_DisconnectClearsAndIsIdempotent ==
    [][lastOp'.op = "disconnect" =>
           /\ wsm'.ws = Null
           /\ wsm'.reconnectTimer = Null
           /\ wsm'.timers = {}
           /\ disconnect(wsm') = wsm']_vars

\* disconnect() ran on an open socket while a reconnection timer was pending
C11_Witness_DisconnectOpenWithTimer ==
    /\ lastOp.op = "disconnect"
    /\ lastOp.timerBefore
    /\ lastOp.sock # Null
    /\ wsm.socks[lastOp.sock] = "CLOSING"

\* ------------------------------------------------------------------ C12
\* C12: at every reachable state at most one socket created by the manager
\* is alive (connecting or open).
LiveSocks == {s \in SockIds : wsm.socks[s] \in {"CONNECTING", "OPEN"}}

C12_AtMostOneLiveSocket == Cardinality(LiveSocks) <= 1

\* ------------------------------------------------------------------ C13
\* C13: when a close event (peer close or error) is handled, the connection
\* is closed afterwards and exactly one reconnection timer is pending.
ConnectionClosed(m) == m.ws = Null \/ m.socks[m.ws] = "CLOSED"

C13_CloseSchedulesOneRetry ==
    [][lastOp'.op \in {"close", "error"} =>
           /\ ConnectionClosed(wsm')
           /\ wsm'.reconnectTimer # Null
           /\ Cardinality(wsm'.timers) = 1]_vars

\* ------------------------------------------------------------------ C18
\* C18: connect() on an open connection creates no socket and leaves the
\* socket handle, the reconnection timer and the handler registry as they
\* were.
C18_ConnectWhenOpenIsNoOp ==
    [][(lastOp'.op = "connect" /\ wsm.ws # Null /\ wsm.socks[wsm.ws] = "OPEN") =>
           wsm' = wsm]_vars

\* connect() ran on an open connection while a reconnection timer was pending
C18_Witness_ConnectOnOpen ==
    /\ lastOp.op = "connect"
    /\ lastOp.timerBefore
    /\ lastOp.sock # Null
    /\ wsm.ws = lastOp.sock
    /\ wsm.socks[wsm.ws] = "OPEN"

\* ------------------------------------------------------------------ C19
\* C19: after an error event on a socket, that socket is closed and the
\* close handling has run: a reconnection timer, and only one, is pending.
C19_ErrorClosesAndSchedulesRetry ==
    [][lastOp'.op = "error" =>
           /\ wsm'.socks[lastOp'.sock] = "CLOSED"
           /\ wsm'.reconnectTimer # Null
           /\ wsm'.timers = {wsm'.reconnectTimer}]_vars

\* an error on the manager's open or connecting socket, no timer pending before
C19_Witness_ErrorOnCurrentSocket ==
    /\ lastOp.op = "error"
    /\ ~lastOp.timerBefore
    /\ lastOp.sock = wsm.ws
    /\ wsm.reconnectTimer # Null

\* ------------------------------------------------------------------ C20
\* C20: when an open event is handled, the connection is open afterwards and
\* no reconnection timer is pending.
C20_OpenCancelsTimer ==
    [][lastOp'.op = "open" =>
           /\ wsm'.ws # Null
           /\ wsm'.socks[wsm'.ws] = "OPEN"
           /\ wsm'.reconnectTimer = Null
           /\ wsm'.timers = {}]_vars

\* ------------------------------------------------------------------ C14
\* C14: while disconnect() is not called, a connection that is closed is
\* eventually followed by a new connection attempt, every time.  (Stated
\* for the closed connections for which a socket slot is left to make the
\* attempt with.)
C14_ReconnectionNeverGivesUp ==
    (wsm.ws # Null /\ wsm.socks[wsm.ws] = "CLOSED" /\ FreeSocks(wsm) # {})
        ~> (wsm.ws # Null /\ wsm.socks[wsm.ws] = "CONNECTING")

C16_RunningJobIsPolled ==
    store.activeBacktest.status = "running" =>
        \E x \in lab.intervals : x.job = store.activeBacktest.job_id

\* ------------------------------------------------------------------ C17
\* C17: a job in the active-job slot whose status requests succeed with a
\* terminal status from some point on eventually has its cascade issued.
\* (Or the model has issued all the status requests it may.)
C17_CascadeEventuallyIssued ==
    \A j \in JobIds :
        (store.activeBacktest.job_id = j)
            ~> (hist.cascades[j] >= 1 \/ PollsIssued >= MaxPolls)

\* ------------------------------------------------------------------ C21
\* C21: a message that cannot be decoded as an envelope is dropped: no
\* handler is called, and the manager (socket, reconnection timer, handler
\* registry) and the store are as before; a well-formed message that comes
\* right after it reaches every handler registered for its type.
Undecoded(d) == d.raw.kind # "envelope"

C21_UndecodableMessageDropped ==
    [][MessageEvent =>
           /\ Undecoded(disp') =>
                  /\ disp'.calls = <<>>
                  /\ wsm' = wsm
                  /\ store' = store
           /\ (lastOp.op = "message" /\ Undecoded(disp)
                   /\ ~Undecoded(disp') /\ ~disp'.threw /\ disp'.raw.type \in Topics) =>
                  Len(disp'.calls) = Len(Registered(disp'.raw.type))]_vars

\* text that is not JSON arrived while two handlers were registered for a topic
C21_Witness_GarbageWithHandlers ==
    /\ lastOp.op = "message"
    /\ disp.raw.kind = "garbage"
    /\ Len(Registered("dashboard")) = 2

\* ------------------------------------------------------------------ C22
\* C22: off(topic, h) removes h and nothing else: a later message of the
\* topic calls the other handlers of the topic, in their order, and not h;
\* the handlers of the other topics are as before; and when h is not
\* registered for the topic the dispatch of every message is as before.
RECURSIVE Without(_, _)
Without(list, h) ==
    IF list = <<>> THEN <<>>
    ELSE IF Head(list) = h THEN Without(Tail(list), h)
    ELSE <<Head(list)>> \o Without(Tail(list), h)

Called(m, type) ==
    LET r == onmessage(m, [kind |-> "envelope", type |-> type, data |-> 1], {})
    IN  [i \in 1..Len(r.calls) |-> r.calls[i].h]

C22_OffRemovesOnlyThatHandler ==
    \A type \in Topics, h \in AbstractHandlers :
        LET m == off(wsm, type, h)
        IN  /\ Called(m, type) = Without(Called(wsm, type), h)
            /\ \A other \in Topics \ {type} : Called(m, other) = Called(wsm, other)
            /\ (\A i \in 1..Len(Called(wsm, type)) : Called(wsm, type)[i] # h) =>
                   \A t \in Topics : Called(m, t) = Called(wsm, t)

\* off() has run and left h2 alone for one topic, h1 and h2 for the other
C22_Witness_AfterOff ==
    /\ lastOp.op = "off"
    /\ wsm.handlers["dashboard"] = <<"h2">>
    /\ wsm.handlers["other"] = <<"h1", "h2">>

\* ------------------------------------------------------------------ C23
\* C23: the poll scheduler issues one dashboard pull when its view starts,
\* and the interval is then running; any other pull is issued one at a time
\* by a tick of the interval of a living view; and a view that has stopped
\* has no interval and issues no pull.
ViewStarts == ~layout.mounted /\ layout'.mounted
PullsIssuedInStep == Len(net') - Len(net)

C23_PullAtStartThenPerTickUntilStop ==
    [][/\ ViewStarts =>
              /\ PullsIssuedInStep = 1
              /\ net'[Len(net')].api = "dashboard"
              /\ layout'.interval
       /\ PullsIssuedInStep > 0 =>
              /\ PullsIssuedInStep = 1
              /\ layout'.mounted
              /\ ViewStarts \/ layout.interval
       /\ ~layout'.mounted => ~layout'.interval /\ PullsIssuedInStep <= 0]_vars

Mounts == Cardinality({s \in SockIds : wsm.socks[s] = "CONNECTING"})

\* the view was started once and has stopped; the pull of its start and the
\* pull of a tick are in flight
C23_Witness_StoppedAfterStartAndTick ==
    /\ ~layout.mounted
    /\ lastOp.op = "off"
    /\ Mounts = 1
    /\ Len(net) = 2

\* ------------------------------------------------------------------ C24
\* C24: the answer to a dashboard pull, whatever its outcome, issues no pull
\* and leaves the interval as it is: the pulls issued are the pull of the
\* start and one for each tick.
PullAnswerStep ==
    \/ Len(net') < Len(net)
    \/ store' # store
    \/ hist'.ev # hist.ev
    \/ hist'.res # hist.res

C24_FailedPullNeitherStopsNorRetries ==
    [][PullAnswerStep =>
           /\ layout' = layout
           /\ \E i \in 1..Len(net) : net' = Remove(net, i)]_vars

\* the last answer was a network failure, the view has been started once,
\* its interval is running and a tick after the failure has issued a pull
C24_Witness_TickAfterFailure ==
    /\ hist.ev = "fetchAll"
    /\ hist.res = NetworkFailure
    /\ store.error = FailedToFetch
    /\ layout.interval
    /\ Mounts = 1
    /\ Len(net) = MaxInFlight

\* ------------------------------------------------------------------ C25
\* C25: teardown cancels no request in flight: the answer to a dashboard
\* pull that arrives when Layout is unmounted, if it is a success, is
\* written to the dashboard slot and clears the error slot, and the answer
\* to a status poll whose panel has been unmounted is written to the
\* active-job slot.
C25_AnswersAfterTeardownStillWrite ==
    [][\A i \in 1..Len(net) :
           net' = Remove(net, i) =>
               /\ (net[i].api = "dashboard" /\ ~layout.mounted /\ hist'.res = OkResponse) =>
                      /\ store'.dashboard = net[i].ver
                      /\ store'.error = NoMsg
               /\ (net[i].api = "status" /\ ~net[i].live) =>
                      store'.activeBacktest = net[i].desc]_vars

\* a dashboard pull and a status poll have both been answered after the
\* teardown of their views, and the slots hold what they brought
C25_Witness_BothWrittenAfterTeardown ==
    /\ hist.late = {"dashboard", "status"}
    /\ ~layout.mounted
    /\ net = <<>>
    /\ store.dashboard = remote.ver
    /\ store.activeBacktest # NullJob
    /\ store.activeBacktest.status = "completed"

\* ------------------------------------------------------------------ C26
\* C26: when the run request fails, the active-job slot and the poll loops
\* are as before and the panel holds an error message.
RunAnswered(i) == net[i].api = "run" /\ net' = Remove(net, i)

C26_FailedRunSurfacesError ==
    [][\A i \in 1..Len(net) :
           (RunAnswered(i) /\ remote'.jobs = remote.jobs) =>
               /\ store'.activeBacktest = store.activeBacktest
               /\ lab'.intervals = lab.intervals
               /\ lab'.error # NoMsg]_vars

\* ------------------------------------------------------------------ C27
\* C27: when the run request succeeds, the active-job slot is set to the
\* descriptor of the job the service created, with status running, progress
\* 0 and the params that were submitted, and no status poll for the job has
\* been issued before.
C27_SuccessfulRunWritesDescriptor ==
    [][\A i \in 1..Len(net) :
           (RunAnswered(i) /\ Len(remote'.jobs) = Len(remote.jobs) + 1) =>
               LET j == Len(remote'.jobs)
               IN  /\ store'.activeBacktest =
                          [job_id |-> j, status |-> "running", progress |-> 0,
                           error |-> NoMsg, params |-> net[i].desc.params]
                   /\ store'.activeBacktest.params = remote'.jobs[j].params
                   /\ hist.polls[j] = 0
                   /\ \A k \in 1..Len(net) : net[k].api = "status" => net[k].job # j]_vars

\* the job was submitted for NQ, the form was set back to ES before the
\* answer, and the slot holds the descriptor written by handleRun
C27_Witness_DescriptorWithSubmittedParams ==
    /\ store.activeBacktest # NullJob
    /\ store.activeBacktest.params = "NQ"
    /\ store.activeBacktest.status = "running"
    /\ store.activeBacktest.progress = 0
    /\ hist.writes[1] = 0
    /\ hist.mounts = 1
    /\ lab.mounted
    /\ lab.params = "ES"

\* ------------------------------------------------------------------ C28
\* C28: the answer to a status request ends the poll loop of its job only
\* if it brings a terminal status: after a failed request, or an answer
\* with another status, a loop that was active for the job is still active.
StatusAnswered(i) == net[i].api = "status" /\ net' = Remove(net, i)
LoopActive(l, j) == \E x \in l.intervals : x.job = j

C28_OnlyTerminalStatusEndsPolling ==
    [][\A i \in 1..Len(net) :
           (/\ StatusAnswered(i)
            /\ LoopActive(lab, net[i].job)
            /\ hist'.terms[net[i].job] = hist.terms[net[i].job]) =>
               LoopActive(lab', net[i].job)]_vars

\* ------------------------------------------------------------------ C29
\* C29: a refresh that fails changes nothing but that it is no longer in
\* flight: its slot and every other slot keep their values and no request
\* is issued; and each other refresh in flight, answered after it, writes
\* what it brings to its slot.
Slot(w, api) ==
    IF api = "dashboard" THEN w.store.dashboard
    ELSE IF api = "equity" THEN w.store.equityCurve
    ELSE IF api = "trades" THEN w.store.trades
    ELSE w.lab.jobs

C29_FailedRefreshIsDropped ==
    \A k \in refresh, res \in RefreshOutcomes \ {OkResponse} :
        LET w0 == [World EXCEPT !.refresh = @ \ {k}]
            w1 == refreshDone(w0, k, res)
        IN  /\ w1 = w0
            /\ \A k2 \in refresh \ {k} :
                   (k2.api = "jobs" => k2.live) =>
                       Slot(refreshDone(w1, k2, OkResponse), k2.api) = k2.ver

\* the cascade has fired and its four refreshes have been answered: the
\* equity curve's has failed, and the other three have written
C29_Witness_OneFailedThreeWritten ==
    /\ hist.cascades[1] = 1
    /\ refresh = {}
    /\ store.equityCurve = Null
    /\ store.trades = remote.ver
    /\ store.dashboard = remote.ver
    /\ hist.dashBy = "cascade"
    /\ lab.jobs = Len(remote.jobs)

SameButJob(w1, w2) ==
    [w1 EXCEPT !.store.activeBacktest = NullJob] =
        [w2 EXCEPT !.store.activeBacktest = NullJob]

C31_FailedJobIsData ==
    [][\A i \in 1..Len(net) :
           (/\ StatusAnswered(i)
            /\ net[i].desc.status = "failed"
            /\ hist'.writes[net[i].job] = hist.writes[net[i].job] + 1) =>
               LET j == net[i].job
                   w == [World EXCEPT !.net = Remove(@, i)]
                   asCompleted == [net[i] EXCEPT !.desc.status = "completed"]
               IN  /\ store'.activeBacktest = net[i].desc
                   /\ store'.activeBacktest.error # NoMsg
                   /\ ~LoopActive(lab', j)
                   /\ hist'.cascades[j] = hist.cascades[j] + 1
                   /\ {k.api : k \in refresh'} = {"dashboard", "equity", "trades", "jobs"}
                   /\ SameButJob(pollDone(w, net[i], OkResponse),
                                 pollDone(w, asCompleted, OkResponse))
                   /\ store'.error = store.error
                   /\ lab'.error = lab.error]_vars

\* the job has failed, its descriptor with the error is in the slot, the
\* panel is mounted with no loop, the cascade has fired and no error is set
C31_Witness_FailedJobWritten ==
    /\ store.activeBacktest.status = "failed"
    /\ store.activeBacktest.error = "boom"
    /\ hist.cascades[1] = 1
    /\ lab.mounted
    /\ lab.intervals = {}
    /\ ~lab.running
    /\ lab.error = NoMsg
    /\ store.error = NoMsg

\* ------------------------------------------------------------------ C32
\* C32: each setter of the store, called on the store as it is with any
\* value, gives the store whose slot is that value and whose other slots
\* are as they were.
OnlySlot(after, before, slot, v) ==
    after = [f \in DOMAIN before |-> IF f = slot THEN v ELSE before[f]]

SlotData == {Null} \cup Versions
SlotJobs ==
    {NullJob} \cup [job_id : JobIds, status : {"running", "failed"}, progress : {0, TotalBars},
                    error : {NoMsg, "boom"}, params : Params]

C32_SettersReplaceOwnSlotOnly ==
    /\ \A v \in SlotData :
           /\ OnlySlot(setDashboard(store, v), store, "dashboard", v)
           /\ OnlySlot(setPositions(store, v), store, "positions", v)
           /\ OnlySlot(setTrades(store, v), store, "trades", v)
           /\ OnlySlot(setToggles(store, v), store, "toggles", v)
           /\ OnlySlot(setEquityCurve(store, v), store, "equityCurve", v)
           /\ OnlySlot(setScoring(store, v), store, "scoring", v)
           /\ OnlySlot(setRisk(store, v), store, "risk", v)
           /\ OnlySlot(setPois(store, v), store, "pois", v)
    /\ \A v \in SlotJobs : OnlySlot(setActiveBacktest(store, v), store, "activeBacktest", v)
    /\ \A v \in Panels : OnlySlot(setActivePanel(store, v), store, "activePanel", v)
    /\ \A v \in BOOLEAN : OnlySlot(setLoading(store, v), store, "loading", v)
    /\ \A v \in {NoMsg, StatusText, FailedToFetch} : OnlySlot(setError(store, v), store, "error", v)
    /\ \A v \in {0} \cup Times : OnlySlot(setLastUpdate(store, v), store, "lastUpdate", v)

\* a store whose slots have been written by setters: the panel, the
\* dashboard with its time, an error after it, and a job's descriptor
C32_Witness_StoreWritten ==
    /\ store.activePanel = "backtest-lab"
    /\ store.dashboard # Null
    /\ store.lastUpdate # 0
    /\ store.error # NoMsg
    /\ store.activeBacktest # NullJob

\* ------------------------------------------------------------------ C33
\* C33: a status answer that is written and whose status is not terminal
\* puts no request for the job list in flight.
JobListInFlight(r) == {k \in r : k.api = "jobs"}

C33_JobListNotPulledAtOtherPolls ==
    [][\A i \in 1..Len(net) :
           (/\ StatusAnswered(i)
            /\ hist'.writes[net[i].job] = hist.writes[net[i].job] + 1
            /\ ~isTerminal(net[i].desc)) =>
               JobListInFlight(refresh') \subseteq JobListInFlight(refresh)]_vars

\* ------------------------------------------------------------------ C34
\* C34: when the active-job slot holds a terminal status for a job, no step
\* leaves it with the status running for the same job.
C34_TerminalStatusIsNotOverwritten ==
    [][(/\ store.activeBacktest.status \in Terminal
        /\ store'.activeBacktest.job_id = store.activeBacktest.job_id) =>
           store'.activeBacktest.status # "running"]_vars

\* ------------------------------------------------------------------ C35
\* C35: the job id in the active-job slot never goes down: once the slot
\* holds the descriptor of a job, no step writes the descriptor of a job
\* submitted before it.
C35_SlotDescribesLatestJob ==
    [][store'.activeBacktest.job_id >= store.activeBacktest.job_id]_vars

\* ------------------------------------------------------------------ C36
\* C36: the error event of a socket other than the manager's current one
\* leaves the current socket open, when it is open.
C36_ErrorClosesOnlyItsSocket ==
    [][(/\ lastOp'.op = "error"
        /\ wsm.ws # Null
        /\ lastOp'.sock # wsm.ws
        /\ wsm.socks[wsm.ws] = "OPEN") =>
           wsm'.socks[wsm.ws] = "OPEN"]_vars

\* ------------------------------------------------------------------ C37
\* C37: among the answers to the poll scheduler's pulls, which carry the
\* remote dashboard as it was when they were requested, none replaces the
\* dashboard of a pull requested later: the version in the slot never goes
\* down.
C37_NoOverwriteByEarlierPull ==
    [][store'.dashboard >= store.dashboard]_vars

\* ------------------------------------------------------------------ C38
\* C38: a push message (a step that records a dispatch) leaves the error
\* slot as it is; the error slot changes only in the step that answers a
\* dashboard pull, to a message
\* when the pull has failed and to none when it has succeeded.
DashPullAnswered == \E i \in 1..Len(net) : net[i].api = "dashboard" /\ net' = Remove(net, i)

C38_ErrorSlotWrittenByPullsOnly ==
    [][/\ disp' # disp => store'.error = store.error
       /\ store'.error # store.error =>
              /\ DashPullAnswered
              /\ store'.error = NoMsg <=> hist'.res = OkResponse]_vars

\* a pull has failed and a push message has written the dashboard since:
\* the error is still there
C38_Witness_ErrorAfterPush ==
    /\ lastOp.op = "message"
    /\ hist.dashBy = "push"
    /\ store.dashboard # Null
    /\ hist.res # OkResponse
    /\ store.error # NoMsg

\* ------------------------------------------------------------------ C39
\* C39: the answer to the cascade's dashboard refresh replaces the
\* dashboard slot and no other slot, last-update and last-error included,
\* while the answer to a pull and the push handler write the time of the
\* write to last-update with the dashboard.
C39_CascadeWritesDashboardOnly ==
    /\ \A k \in refresh :
           k.api = "dashboard" =>
               LET w == refreshDone([World EXCEPT !.refresh = @ \ {k}], k, OkResponse)
               IN  /\ OnlySlot(w.store, store, "dashboard", k.ver)
                   /\ w.store.lastUpdate = store.lastUpdate
                   /\ w.store.error = store.error
    /\ \A i \in 1..Len(net), now \in Now(store) :
           net[i].api = "dashboard" =>
               LET w == fetchAllDone([World EXCEPT !.net = Remove(@, i)], net[i], OkResponse, now)
               IN  w.store.dashboard = net[i].ver /\ w.store.lastUpdate = now
    /\ \A v \in Versions, now \in Now(store) :
           LET w == handleDashboard(World, v, now)
           IN  w.store.dashboard = v /\ w.store.lastUpdate = now

\* the cascade's refresh has written the dashboard after a failed pull, and
\* neither a pull nor a push has written: no time of update, and the error
\* is still there
C39_Witness_CascadeWroteDashboard ==
    /\ hist.dashBy = "cascade"
    /\ store.dashboard = hist.dashLast
    /\ store.dashboard # Null
    /\ store.lastUpdate = 0
    /\ store.error # NoMsg


\* ------------------------------------------------------------------- C40
\* the requests in flight that disable toggle id
DisableRequests(b, id) ==
    {i \in 1..Len(b.reqs) : /\ b.reqs[i].api = "setToggle"
                            /\ b.reqs[i].id = id
                            /\ ~b.reqs[i].enabled}

\* C40: a request to disable a safety toggle is issued only by a step that
\* finds the board armed for that same toggle, and a step that arms the board
\* for a safety toggle (the first click on it while it is enabled, or a click
\* on it while the board is armed for another toggle) issues no request.
C40_DisableNeedsConfirmationOfSameToggle ==
    [][\A id \in SafetyToggles :
          /\ Cardinality(DisableRequests(board', id)) > Cardinality(DisableRequests(board, id))
                => board.confirmId = id
          /\ (board'.confirmId = id /\ board.confirmId # id)
                => board'.reqs = board.reqs]_vars

\* a confirmed disable request is in flight while the board is armed for the
\* other safety toggle
C40_Witness_ConfirmedWhileOtherArmed ==
    \E id \in SafetyToggles, other \in SafetyToggles :
        /\ other # id
        /\ DisableRequests(board, id) # {}
        /\ board.confirmId = other
====
